---- MODULE Spec2Model ----
(***************************************************************************)
(* A model of the todo service of src/app.py: three request handlers       *)
(* (list_todos, get_todo, add_todo behind the validate_schema decorator)   *)
(* over one JSON file, todos.json, which every handler re-reads and which  *)
(* save_todo rewrites in full.  Handlers of different requests run         *)
(* concurrently and share nothing but the file; every access to the file   *)
(* (a load, the open for writing, the dump) is one step.                   *)
(***************************************************************************)
EXTENDS Naturals, Sequences, FiniteSets, TLC

\* Bound of the model: the number of creates that get past validation in a run.
MaxCreates == 3

\* The request handlers that may be in flight at once.
Procs == {"w1", "w2"}

-----------------------------------------------------------------------------
(* JSON values, as request.get_json() and json.load() deliver them.        *)

Str(s) == [type |-> "string", s |-> s, b |-> FALSE, n |-> 0]
Bool(b) == [type |-> "boolean", s |-> "", b |-> b, n |-> 0]
Num(n) == [type |-> "number", s |-> "", b |-> FALSE, n |-> n]

\* A dict with no key.
NoMembers == [k \in {} |-> Num(0)]

\* A JSON document: an object with its members, or a value that is no object.
Object(members) == [type |-> "object", members |-> members]
NonObject == [type |-> "number", members |-> NoMembers]

S16 == "aaaaaaaaaaaaaaaa"
S64 == S16 \o S16 \o S16 \o S16
\* Strings of 256 and of 255 characters.
S256 == S64 \o S64 \o S64 \o S64
S255 == SubSeq(S256, 1, 255)

-----------------------------------------------------------------------------
(* schemas/input_todo_schema.py                                            *)

maxLength == 255

input_todo_schema ==
    [type |-> "object",
     properties |->
        [id |-> [type |-> "string", maxLength |-> maxLength],
         userId |-> [type |-> "string", maxLength |-> maxLength],
         title |-> [type |-> "string", maxLength |-> maxLength],
         completed |-> [type |-> "boolean"]],
     propertyOrder |-> <<"id", "userId", "title", "completed">>,
     additionalProperties |-> FALSE,
     required |-> <<"userId", "title">>]

\* One error of the validator: the keyword that failed and the property it is about.
Error(validator, property) == [validator |-> validator, property |-> property]

\* property_errors with the "maxLength" keyword ignored.
property_errors_no_max_length(value, subschema, name) ==
    IF value.type # subschema.type THEN <<Error("type", name)>> ELSE <<>>

\* The errors of one property's value against its subschema ("type", "maxLength").
property_errors(value, subschema, name) ==
    (IF value.type # subschema.type THEN <<Error("type", name)>> ELSE <<>>)
    \o (IF /\ "maxLength" \in DOMAIN subschema
           /\ value.type = "string"
           /\ Len(value.s) > subschema.maxLength
        THEN <<Error("maxLength", name)>> ELSE <<>>)

RECURSIVE properties_errors(_, _, _)
\* The "properties" keyword: each declared property the instance holds is
\* validated against its subschema, in the order of declaration.
properties_errors(members, schema, i) ==
    IF i > Len(schema.propertyOrder) THEN <<>>
    ELSE LET name == schema.propertyOrder[i]
         IN (IF name \in DOMAIN members
             THEN property_errors(members[name], schema.properties[name], name)
             ELSE <<>>)
            \o properties_errors(members, schema, i + 1)

\* The "additionalProperties": False keyword: one error naming the extras.
additional_errors(members, schema) ==
    IF /\ ~schema.additionalProperties
       /\ DOMAIN members \ DOMAIN schema.properties # {}
    THEN <<Error("additionalProperties", "")>> ELSE <<>>

RECURSIVE required_errors(_, _, _)
\* The "required" keyword: one error per required property that is absent.
required_errors(members, schema, i) ==
    IF i > Len(schema.required) THEN <<>>
    ELSE (IF schema.required[i] \in DOMAIN members THEN <<>>
          ELSE <<Error("required", schema.required[i])>>)
         \o required_errors(members, schema, i + 1)

\* iter_errors with "additionalProperties": False ignored.
iter_errors_no_additional(input, schema) ==
    IF input.type # schema.type THEN <<Error("type", "")>>
    ELSE properties_errors(input.members, schema, 1)
         \o required_errors(input.members, schema, 1)

\* validator.iter_errors(input): every violation, not only the first.  The
\* object keywords apply to objects only.
iter_errors(input, schema) ==
    IF input.type # schema.type THEN <<Error("type", "")>>
    ELSE properties_errors(input.members, schema, 1)
         \o additional_errors(input.members, schema)
         \o required_errors(input.members, schema, 1)

-----------------------------------------------------------------------------
(* The request bodies tried.                                               *)

Absent == [type |-> "absent", s |-> "", b |-> FALSE, n |-> 0]

IdValues == {Absent, Str(S255), Str(S256)}
UserIdValues == {Absent, Str(""), Str("u1"), Str(S256), Num(1)}
TitleValues == {Absent, Str("buy milk"), Str(S256)}
CompletedValues == {Absent, Bool(TRUE), Bool(FALSE), Str("yes")}
ExtraValues == {Absent, Str("x")}

\* The object holding the given members, those that are Absent left out.
Body(i, u, t, c, x) ==
    LET all == [id |-> i, userId |-> u, title |-> t, completed |-> c, note |-> x]
        keys == {k \in DOMAIN all : all[k] # Absent}
    IN Object([k \in keys |-> all[k]])

\* The bodies tried: the base body, each body that differs from it in one
\* member, the bodies without userId and title, and a body that is no object.
Payloads ==
    {Body(i, Str("u1"), Str("buy milk"), Absent, Absent) : i \in IdValues}
    \cup {Body(Absent, u, Str("buy milk"), Absent, Absent) : u \in UserIdValues}
    \cup {Body(Absent, Str("u1"), t, Absent, Absent) : t \in TitleValues}
    \cup {Body(Absent, Str("u1"), Str("buy milk"), c, Absent) : c \in CompletedValues}
    \cup {Body(Absent, Str("u1"), Str("buy milk"), Absent, x) : x \in ExtraValues}
    \cup {Body(Absent, Absent, Absent, Absent, x) : x \in ExtraValues}
    \cup {NonObject}

-----------------------------------------------------------------------------
(* todos.json and the json module.                                         *)

\* The text of a file: an array of serialized objects of so many characters
\* in all, or (array = FALSE) a text json.load cannot parse, such as that of a
\* file just truncated.
EmptyText == [array |-> FALSE, items |-> <<>>, bytes |-> 0]

todo_keys == <<"completed", "id", "title", "userId">>

\* The characters of a value as json.dump writes it: a string in its quotes,
\* true or false, the decimal digits of a number.
value_bytes(v) ==
    CASE v.type = "string" -> Len(v.s) + 2
      [] v.type = "boolean" -> (IF v.b THEN 4 ELSE 5)
      [] OTHER -> (IF v.n < 10 THEN 1 ELSE IF v.n < 100 THEN 2 ELSE 3)

RECURSIVE members_bytes(_, _)
\* The members of one object under indent=4: each on a line of its own, eight
\* spaces in, as "key": value, with a comma between two.
members_bytes(t, j) ==
    IF j > Len(todo_keys) THEN 0
    ELSE 1 + 8 + (Len(todo_keys[j]) + 2) + 2 + value_bytes(t[todo_keys[j]])
         + (IF j < Len(todo_keys) THEN 1 ELSE 0)
         + members_bytes(t, j + 1)

RECURSIVE items_bytes(_, _)
\* The objects of the array: each on a line of its own, four spaces in, its
\* closing brace on a line of its own, with a comma between two.
items_bytes(list, i) ==
    IF i > Len(list) THEN 0
    ELSE 1 + 4 + 1 + members_bytes(list[i], 1) + 1 + 4 + 1
         + (IF i < Len(list) THEN 1 ELSE 0)
         + items_bytes(list, i + 1)

\* json.dump(todos, outfile, sort_keys=True, indent=4): each object as its
\* members in the order of their keys; "[]" for no object.
json_dump(list) ==
    [array |-> TRUE,
     items |-> [i \in 1..Len(list) |->
                  [j \in 1..Len(todo_keys) |->
                     [key |-> todo_keys[j], value |-> list[i][todo_keys[j]]]]],
     bytes |-> IF Len(list) = 0 THEN 2 ELSE 1 + items_bytes(list, 1) + 1 + 1]

\* json.load(infile): the list of dicts, or raised = TRUE (ValueError).
json_load(text) ==
    IF ~text.array THEN [raised |-> TRUE, value |-> <<>>]
    ELSE [raised |-> FALSE,
          value |-> [i \in 1..Len(text.items) |->
                       LET pairs == text.items[i]
                       IN [k \in {pairs[j].key : j \in 1..Len(pairs)} |->
                             pairs[CHOOSE j \in 1..Len(pairs) : pairs[j].key = k].value]]]

\* open with every mode truncating, as if get_todos opened the file with 'w'.
open_truncates(text, mode) == EmptyText

\* open with no mode truncating, as if save_todo opened the file with 'r+'.
open_keeps(text, mode) == text

\* open('todos.json', mode): the text of the file once it is open.  Mode 'w'
\* truncates it; mode 'r' leaves it as it is.
open(text, mode) == IF mode = "w" THEN EmptyText ELSE text

\* The text of the file once a handle opened with 'w' has written text and is
\* closed.  The handle writes from its own offset 0, over what another handle
\* has written since the open: of a longer text the end stays, and the file
\* does not parse.
write(file, text) ==
    IF text.bytes >= file.bytes THEN text
    ELSE [array |-> FALSE, items |-> text.items, bytes |-> file.bytes]

-----------------------------------------------------------------------------
(* Responses.                                                              *)

Response(status, kind, msg, list, errors) ==
    [status |-> status, kind |-> kind, msg |-> msg, todos |-> list, errors |-> errors]

\* No response.
NoResponse == Response(0, "none", "", <<>>, <<>>)
\* jsonify(dict(todos=todos))
jsonify_todos(list) == Response(200, "todos", "", list, <<>>)
\* jsonify(todo)
jsonify_todo(t) == Response(200, "todo", "", <<t>>, <<>>)
\* jsonify(dict(msg='todo saved'))
jsonify_saved == Response(200, "msg", "todo saved", <<>>, <<>>)
\* jsonify(dict(success=False, message="invalid input", errors=errors)), status 406
invalid_input(errors) == Response(406, "errors", "invalid input", <<>>, errors)
\* abort(404)
abort(status) == Response(status, "abort", "", <<>>, <<>>)
\* An exception no handler catches: the framework's 500.
server_error == Response(500, "exception", "", <<>>, <<>>)

-----------------------------------------------------------------------------
(* The state.                                                              *)

VARIABLES
    todos_json,     \* the text of todos.json
    pc,             \* where each handler is in its request
    todos_len,      \* add_todo: todos_len
    todo,           \* add_todo: todo, save_todo's parameter
    todos,          \* save_todo: todos
    out,            \* the response a handler has made and the server has yet to send
    began,          \* history: the text of todos.json when the create began
    interleaved,    \* history: another handler wrote the file during the create
    creates         \* history: the number of creates that got past validation

vars == <<todos_json, pc, todos_len, todo, todos, out, began, interleaved, creates>>

NoTodo == [id |-> Num(0), userId |-> Str(""), title |-> Str(""), completed |-> Bool(FALSE)]

\* Handler p returns response r.
Send(p, r) == [by |-> p, response |-> r]
\* No response waits to be sent.
Silent == [by |-> "", response |-> NoResponse]

Init ==
    /\ todos_json = json_dump(<<>>)
    /\ pc = [p \in Procs |-> "ready"]
    /\ todos_len = [p \in Procs |-> 0]
    /\ todo = [p \in Procs |-> NoTodo]
    /\ todos = [p \in Procs |-> <<>>]
    /\ out = Silent
    /\ began = [p \in Procs |-> EmptyText]
    /\ interleaved = [p \in Procs |-> FALSE]
    /\ creates = 0

\* get_todos(): json.load of the file as it is now.
get_todos == json_load(open(todos_json, "r"))

\* The create of handler p has ended in an exception: its locals are gone.
Dropped(p) ==
    /\ todos_len' = [todos_len EXCEPT ![p] = 0]
    /\ todo' = [todo EXCEPT ![p] = NoTodo]
    /\ todos' = [todos EXCEPT ![p] = <<>>]
    /\ began' = [began EXCEPT ![p] = EmptyText]
    /\ interleaved' = [interleaved EXCEPT ![p] = FALSE]

\* Handler p writes the file: every other create in flight has been interleaved.
Interleave(p) ==
    [q \in Procs |-> IF q # p /\ pc[q] # "ready" THEN TRUE ELSE interleaved[q]]

-----------------------------------------------------------------------------
(* The handlers.                                                           *)

\* GET /todos
list_todos(p) ==
    /\ pc[p] = "ready"
    /\ out = Silent
    /\ todos_json' = open(todos_json, "r")
    /\ out' = Send(p, IF get_todos.raised THEN server_error
                      ELSE jsonify_todos(get_todos.value))
    /\ UNCHANGED <<pc, todos_len, todo, todos, began, interleaved, creates>>

RECURSIVE scan_last(_, _, _)
\* scan without its return in the loop: the last todo with the id wins.
scan_last(list, id, i) ==
    IF i > Len(list) THEN abort(404)
    ELSE LET rest == scan_last(list, id, i + 1)
         IN IF rest.status = 200 THEN rest
            ELSE IF list[i].id = Num(id) THEN jsonify_todo(list[i])
            ELSE rest

RECURSIVE scan(_, _, _)
\* for todo in todos: if todo['id'] == id: return jsonify(todo); return abort(404)
scan(list, id, i) ==
    IF i > Len(list) THEN abort(404)
    ELSE IF list[i].id = Num(id) THEN jsonify_todo(list[i])
    ELSE scan(list, id, i + 1)

\* GET /todos/<int:id>
get_todo(p, id) ==
    /\ pc[p] = "ready"
    /\ out = Silent
    /\ todos_json' = open(todos_json, "r")
    /\ out' = Send(p, IF get_todos.raised THEN server_error
                      ELSE scan(get_todos.value, id, 1))
    /\ UNCHANGED <<pc, todos_len, todo, todos, began, interleaved, creates>>

\* build_todo with id = todos_len.
build_todo_id_is_len(body, len) ==
    [id |-> Num(len),
     userId |-> body.members["userId"],
     title |-> body.members["title"],
     completed |-> IF "completed" \in DOMAIN body.members
                   THEN body.members["completed"] ELSE Bool(FALSE)]

\* build_todo with completed defaulting to True.
build_todo_default_true(body, len) ==
    [id |-> Num(len + 1),
     userId |-> body.members["userId"],
     title |-> body.members["title"],
     completed |-> IF "completed" \in DOMAIN body.members
                   THEN body.members["completed"] ELSE Bool(TRUE)]

\* dict(id=todos_len + 1, userId=posted['userId'], title=posted['title'],
\*      completed=posted['completed'] if 'completed' in posted else False)
build_todo(body, len) ==
    [id |-> Num(len + 1),
     userId |-> body.members["userId"],
     title |-> body.members["title"],
     completed |-> IF "completed" \in DOMAIN body.members
                   THEN body.members["completed"] ELSE Bool(FALSE)]

\* add_todo up to its call of save_todo: the count of the todos and the new
\* todo.  posted is not read again.
add_todo(p, body) ==
    /\ todos_json' = open(todos_json, "r")
    /\ began' = [began EXCEPT ![p] = todos_json]
    /\ interleaved' = [interleaved EXCEPT ![p] = FALSE]
    /\ todos' = [todos EXCEPT ![p] = <<>>]
    /\ IF get_todos.raised
       THEN /\ out' = Send(p, server_error)
            /\ todos_len' = [todos_len EXCEPT ![p] = 0]
            /\ todo' = [todo EXCEPT ![p] = NoTodo]
            /\ UNCHANGED pc
       ELSE /\ todos_len' = [todos_len EXCEPT ![p] = Len(get_todos.value)]
            /\ todo' = [todo EXCEPT ![p] = build_todo(body, Len(get_todos.value))]
            /\ pc' = [pc EXCEPT ![p] = "save_todo"]
            /\ out' = Silent

\* POST /todos, the decorator: validate_schema(input_todo_schema)'s wrapped.
\* An input with errors is answered 406 and add_todo is not called; any other
\* is handed to add_todo, whose first access to the file ends the step.
wrapped(p, input) ==
    /\ pc[p] = "ready"
    /\ out = Silent
    /\ LET errors == iter_errors(input, input_todo_schema)
       IN IF errors # <<>>
          THEN /\ out' = Send(p, invalid_input(errors))
               /\ UNCHANGED <<todos_json, pc, todos_len, todo, todos, began,
                              interleaved, creates>>
          ELSE /\ creates < MaxCreates
               /\ creates' = creates + 1
               /\ add_todo(p, input)

\* save_todo: todos = get_todos()
save_todo_load(p) ==
    /\ pc[p] = "save_todo"
    /\ out = Silent
    /\ todos_json' = open(todos_json, "r")
    /\ IF get_todos.raised
       THEN /\ out' = Send(p, server_error)
            /\ pc' = [pc EXCEPT ![p] = "ready"]
            /\ Dropped(p)
       ELSE /\ todos' = [todos EXCEPT ![p] = get_todos.value]
            /\ pc' = [pc EXCEPT ![p] = "open"]
            /\ out' = Silent
            /\ UNCHANGED <<todos_len, todo, began, interleaved>>
    /\ UNCHANGED creates

\* save_todo: with open('todos.json', 'w') as outfile
save_todo_open(p) ==
    /\ pc[p] = "open"
    /\ out = Silent
    /\ todos_json' = open(todos_json, "w")
    /\ pc' = [pc EXCEPT ![p] = "dump"]
    /\ interleaved' = Interleave(p)
    /\ out' = Silent
    /\ UNCHANGED <<todos_len, todo, todos, began, creates>>

\* save_todo_text with the todo appended to an empty list, not to the loaded one.
save_todo_text_without_loaded(list, t) == json_dump(<<t>>)

\* The text save_todo writes: todos.append(todo); json.dump(todos, outfile, ...)
save_todo_text(list, t) == json_dump(Append(list, t))

\* save_todo: the dump reaches the file as the with block closes it, at the
\* handle's own offset 0; add_todo then answers 'todo saved'.  The todo stays
\* on record until the handler's next create.
save_todo_dump(p) ==
    /\ pc[p] = "dump"
    /\ out = Silent
    /\ todos_json' = write(todos_json, save_todo_text(todos[p], todo[p]))
    /\ pc' = [pc EXCEPT ![p] = "ready"]
    /\ out' = Send(p, jsonify_saved)
    /\ interleaved' = [Interleave(p) EXCEPT ![p] = FALSE]
    /\ began' = [began EXCEPT ![p] = EmptyText]
    /\ todos_len' = [todos_len EXCEPT ![p] = 0]
    /\ todos' = [todos EXCEPT ![p] = <<>>]
    /\ UNCHANGED <<todo, creates>>

\* The server dies between a handler's open for writing and its dump: nothing
\* is written, nothing is answered, and no handler runs on.
crash(p) ==
    /\ pc[p] = "dump"
    /\ out = Silent
    /\ pc' = [q \in Procs |-> "crashed"]
    /\ out' = Silent
    /\ UNCHANGED <<todos_json, todos_len, todo, todos, began, interleaved, creates>>

\* The server sends the response a handler returned.  It does so before any
\* handler takes its next step: no handler reads a response.
send ==
    /\ out # Silent
    /\ out' = Silent
    /\ UNCHANGED <<todos_json, pc, todos_len, todo, todos, began, interleaved, creates>>

\* The ids asked of get_todo: every id a todo can bear, and one none bears.
IdArgs == 1..MaxCreates \cup {999}

Next ==
    \/ \E p \in Procs : list_todos(p)
    \/ \E p \in Procs : \E id \in IdArgs : get_todo(p, id)
    \/ \E p \in Procs : \E input \in Payloads : wrapped(p, input)
    \/ \E p \in Procs : save_todo_load(p)
    \/ \E p \in Procs : save_todo_open(p)
    \/ \E p \in Procs : save_todo_dump(p)
    \/ \E p \in Procs : crash(p)
    \/ send

Spec == Init /\ [][Next]_vars

-----------------------------------------------------------------------------
(* What the claims speak of.                                               *)

\* The collection todos.json holds, when it parses.
Parses == ~json_load(todos_json).raised
Persisted == json_load(todos_json).value

IsPrefix(a, b) == Len(a) <= Len(b) /\ \A i \in 1..Len(a) : a[i] = b[i]
Contains(list, t) == \E i \in 1..Len(list) : list[i] = t
Last(list) == list[Len(list)]

\* The last create of handler p was answered 'todo saved'.
Acknowledged(p) == pc[p] = "ready" /\ todo[p] # NoTodo

\* The bodies that pass validation.
ValidPayloads == {input \in Payloads : iter_errors(input, input_todo_schema) = <<>>}

\* The bodies C2 names: userId or title missing, a property the schema does not
\* declare, or a string of more than 255 characters.
Rejectable(input) ==
    /\ input.type = "object"
    /\ \/ "userId" \notin DOMAIN input.members
       \/ "title" \notin DOMAIN input.members
       \/ DOMAIN input.members \ {"id", "userId", "title", "completed"} # {}
       \/ \E k \in DOMAIN input.members :
             input.members[k].type = "string" /\ Len(input.members[k].s) > 255
RejectablePayloads == {input \in Payloads : Rejectable(input)}

-----------------------------------------------------------------------------
(* The claims.                                                             *)

\* C1: a create that passes validation and whose steps no other handler's
\* write interleaves leaves, when it writes, the collection that was in the
\* file when the request began with one element appended, and that element's
\* id is the former length + 1.
C1_CreateAppendsOne ==
    [][\A p \in Procs :
         (save_todo_dump(p) /\ ~interleaved[p]) =>
            LET before == json_load(began[p])
                after == json_load(todos_json')
            IN /\ ~before.raised /\ ~after.raised
               /\ Len(after.value) = Len(before.value) + 1
               /\ IsPrefix(before.value, after.value)
               /\ Last(after.value) = todo[p]
               /\ Last(after.value).id = Num(Len(before.value) + 1)]_vars

\* A create is answered on a store of one todo or more, the other handler
\* never having created anything: the file ends with the new todo.
C1_Witness ==
    \E p \in Procs :
       /\ out = Send(p, jsonify_saved)
       /\ \A q \in Procs \ {p} : pc[q] = "ready" /\ todo[q] = NoTodo
       /\ Parses /\ Len(Persisted) >= 2
       /\ Last(Persisted) = todo[p]
       /\ todo[p].id = Num(Len(Persisted))

\* C2: a body that lacks userId or title, holds an undeclared property or a
\* string of more than 255 characters is answered 406 'invalid input' with the
\* errors, in a step that leaves the file as it is and ends the request.
C2_InvalidRejected ==
    [][\A p \in Procs : \A input \in RejectablePayloads :
         wrapped(p, input) =>
            /\ out'.by = p
            /\ out'.response.status = 406
            /\ out'.response.msg = "invalid input"
            /\ out'.response.errors # <<>>
            /\ todos_json' = todos_json
            /\ pc'[p] = "ready"]_vars

\* A body without userId and title and with an undeclared property has been
\* rejected, every violation listed, on a store that holds a todo.
C2_Witness ==
    /\ out.response.status = 406
    /\ \E i \in 1..Len(out.response.errors) :
          out.response.errors[i] = Error("required", "userId")
    /\ \E i \in 1..Len(out.response.errors) :
          out.response.errors[i] = Error("additionalProperties", "")
    /\ Parses /\ Len(Persisted) >= 1

\* C3 (as claimed): once a handler's create is acknowledged, a get_todo with
\* the id it assigned returns the todo it built.
C3_RoundTrip ==
    [][\A p \in Procs : \A q \in Procs :
         (Acknowledged(p) /\ get_todo(q, todo[p].id.n)) =>
            out'.response = jsonify_todo(todo[p])]_vars

\* C4: list_todos and get_todo leave the file as it is, whatever they answer.
C4_ReadsKeepFile ==
    [][\A p \in Procs :
         (list_todos(p) \/ \E id \in IdArgs : get_todo(p, id)) =>
            todos_json' = todos_json]_vars

\* A get_todo has ended in 404 on a store that holds todos.
C4_Witness ==
    /\ out.response = abort(404)
    /\ Parses /\ Len(Persisted) >= 2

\* C5 (as claimed): every persisted todo has a non-empty userId and title.
C5_NonEmpty ==
    Parses => \A i \in 1..Len(Persisted) :
                 /\ Persisted[i].userId.type = "string" /\ Persisted[i].userId.s # ""
                 /\ Persisted[i].title.type = "string" /\ Persisted[i].title.s # ""

\* C5 (amended): every persisted todo has a userId and a title that are
\* strings of at most 255 characters; either may be empty.
C5_BoundedStrings ==
    Parses => \A i \in 1..Len(Persisted) :
                 /\ Persisted[i].userId.type = "string"
                 /\ Len(Persisted[i].userId.s) <= 255
                 /\ Persisted[i].title.type = "string"
                 /\ Len(Persisted[i].title.s) <= 255

\* The file holds a todo whose userId is the empty string.
C5_Witness ==
    Parses /\ \E i \in 1..Len(Persisted) : Persisted[i].userId = Str("")

\* C6 (as claimed): what a create writes extends what the file holds: when
\* save_todo opens the file for writing, and when it dumps, the collection in
\* the file is a prefix of the one it writes.
C6_AppendOnly ==
    [][\A p \in Procs :
         ((save_todo_open(p) \/ save_todo_dump(p)) /\ Parses) =>
            IsPrefix(Persisted, Append(todos[p], todo[p]))]_vars

\* C7: get_todo answers with the first todo of the file whose id is the one
\* asked for, and with 404 and no todo when there is none.
C7_FirstMatch ==
    [][\A p \in Procs : \A id \in IdArgs :
         (get_todo(p, id) /\ Parses) =>
            LET hits == {i \in 1..Len(Persisted) : Persisted[i].id = Num(id)}
            IN IF hits = {}
               THEN out'.response.status = 404 /\ out'.response.todos = <<>>
               ELSE /\ out'.response.status = 200
                    /\ out'.response.todos =
                          <<Persisted[CHOOSE i \in hits : \A j \in hits : i <= j]>>]_vars

\* A get_todo has answered with the first of two todos that bear the same id
\* and differ.
C7_Witness ==
    /\ out.response.kind = "todo"
    /\ Parses
    /\ \E i \in 1..Len(Persisted) : \E j \in 1..Len(Persisted) :
          /\ i < j
          /\ Persisted[i].id = Persisted[j].id
          /\ Persisted[i] # Persisted[j]
          /\ out.response.todos = <<Persisted[i]>>

\* C8: the todo a create builds from a valid body, and the one it persists,
\* has completed = false when the body has no completed, and the body's
\* completed otherwise.
C8_CompletedDefault ==
    [][\A p \in Procs :
         /\ \A input \in ValidPayloads :
               (wrapped(p, input) /\ Parses) =>
                  todo'[p].completed =
                     IF "completed" \in DOMAIN input.members
                     THEN input.members["completed"] ELSE Bool(FALSE)
         /\ (save_todo_dump(p) /\ ~json_load(todos_json').raised) =>
               Last(json_load(todos_json').value).completed = todo[p].completed]_vars

\* The file holds a todo that is completed and one that is not.
C8_Witness ==
    /\ Parses
    /\ \E i \in 1..Len(Persisted) : Persisted[i].completed = Bool(TRUE)
    /\ \E i \in 1..Len(Persisted) : Persisted[i].completed = Bool(FALSE)

\* C9: a create writes the collection it loaded, plus its todo, over whatever
\* the file holds by then.  Where the file parses after the write: an acknowledged todo of the other handler is in the
\* file after the write exactly if it was in the loaded collection; and a
\* create that loads a todo bearing the id it computed from its earlier count
\* writes a file with that id twice.
C9_StaleWrite ==
    [][\A p \in Procs :
         (save_todo_dump(p) /\ ~json_load(todos_json').raised) =>
            LET new == json_load(todos_json').value
            IN /\ \A q \in Procs \ {p} :
                     (Acknowledged(q) /\ todo[q] # todo[p]) =>
                        (Contains(new, todo[q]) <=> Contains(todos[p], todo[q]))
               /\ \A i \in 1..Len(todos[p]) :
                     todos[p][i].id = Num(todos_len[p] + 1) =>
                        /\ i < Len(new)
                        /\ new[i].id = Last(new).id]_vars

\* Both handlers' creates are acknowledged; the file holds the todo of one and
\* not that of the other, and holds two todos with the same id.
C9_Witness ==
    \E p \in Procs : \E q \in Procs \ {p} :
       /\ Acknowledged(p) /\ Acknowledged(q)
       /\ Parses
       /\ Contains(Persisted, todo[q])
       /\ ~Contains(Persisted, todo[p])
       /\ \E i \in 1..Len(Persisted) : \E j \in 1..Len(Persisted) :
             i < j /\ Persisted[i].id = Persisted[j].id

\* C10: save_todo loads, then truncates, then writes.  The open for writing
\* leaves a file that holds nothing and does not parse; a crash before the
\* dump leaves the file as it is then, which, no other handler having
\* written, is empty; a load that fails answers 500 and leaves the file as it
\* is, the handler never reaching the open.
C10_NotAtomic ==
    [][\A p \in Procs :
         /\ save_todo_open(p) =>
               todos_json' = EmptyText /\ json_load(todos_json').raised
         /\ crash(p) => todos_json' = todos_json
         /\ (crash(p) /\ ~interleaved[p]) =>
               todos_json' = EmptyText /\ ~json_load(began[p]).raised
         /\ (save_todo_load(p) /\ ~Parses) =>
               /\ todos_json' = todos_json
               /\ pc'[p] = "ready"
               /\ out' = Send(p, server_error)]_vars

\* The server has died in a save_todo that had loaded todos and truncated the
\* file: the file holds nothing.
C10_Witness ==
    /\ \A q \in Procs : pc[q] = "crashed"
    /\ todos_json = EmptyText
    /\ \E p \in Procs : Len(todos[p]) >= 1 /\ ~interleaved[p]

====
